---- MODULE Spec2Model ----
(***************************************************************************)
(* Presence and synchronisation engine of avatar-aim: the hangout roster   *)
(* kept by the primary window (ChatArea), the Electron main process that   *)
(* owns the overlay window, and the overlay renderer (HangoutOverlay and   *)
(* its Avatar components).                                                 *)
(*                                                                         *)
(* One client is modelled in full: the user LocalUser with its primary     *)
(* window, main process and overlay.  The other participants act through   *)
(* the shared hangout_sessions table and the broadcast channel.            *)
(*                                                                         *)
(* The repository holds two revisions of the main process: src/main.ts     *)
(* ("legacy") and the one at the head of unnamed/part_002 ("current").     *)
(* mainRev is chosen in Init and never changes.                            *)
(***************************************************************************)
EXTENDS Integers, Sequences, FiniteSets, TLC

\* ------------------------------------------------------------------ bounds
MaxRowId == 2        \* ids handed out by hangout_sessions inserts
MaxInflight == 2     \* overlapping requests of one kind per window
MaxLeaves == 1       \* leaveHangout calls in flight
MaxWindows == 2      \* overlay windows created in one run
MaxTimers == 2       \* setTimeout callbacks pending in the overlay

\* ------------------------------------------------------------- participants
LocalUser == "A"
Users == {"A", "B"}
RemoteUsers == Users \ {LocalUser}
NoUser == "null"

\* avatar coordinates that occur in the model, in pixels
Xs == {100, 300}
Ys == {100, 150}

\* joinHangout: avatar_x = 100 + random*200, avatar_y = 100 + random*100
JoinXs == {x \in Xs : 100 <= x /\ x < 300}
JoinYs == {y \in Ys : 100 <= y /\ y < 200}

Row(id, u, x, y) == [id |-> id, user_id |-> u, avatar_x |-> x, avatar_y |-> y]
Rows == {Row(id, u, x, y) : id \in 1..(MaxRowId + 1), u \in Users, x \in Xs, y \in Ys}

UsersOf(data) == {h.user_id : h \in data}
HasUser(data, u) == \E h \in data : h.user_id = u

\* --------------------------------------------------------- sequence helpers
RemoveAt(s, i) == SubSeq(s, 1, i - 1) \o SubSeq(s, i + 1, Len(s))

\* ----------------------------------------------- hangout_sessions (the store)
\* unique (conversation_id, user_id): an insert for a pair that has a row is
\* refused with an error
NoUniqueConstraint(s, u) == FALSE
UniqueViolation(s, u) == HasUser(s, u)
DbInsert(s, row) == s \cup {row}
DbDeleteConversation(s, u) == {}
DbDelete(s, u) == {h \in s : h.user_id # u}
DbUpdate(s, u, x, y) ==
  {IF h.user_id = u THEN [h EXCEPT !.avatar_x = x, !.avatar_y = y] ELSE h : h \in s}

VARIABLES
  mainRev,              \* "current" | "legacy"
  sessions,             \* rows of hangout_sessions for the conversation
  nextRowId,            \* next id the table hands out
  \* ---- primary window (ChatArea)
  chatMounted,          \* ChatArea is rendered
  conversation,         \* conversation.id of ChatArea's props
  hangoutParticipants,  \* useState<HangoutSession[]>
  isInHangout,
  joiningHangout,
  joinPc,               \* joinHangout: "idle" | "insert" | "reload" | "conflict"
  leaveReqs,            \* leaveHangout calls whose delete has not returned
  primReloads,          \* loadHangoutParticipants calls in flight, oldest first
  \* ---- main process
  hangoutWindow,        \* 0 = null, else index into windows
  currentHangoutData,
  windows,              \* every BrowserWindow created for the overlay
  \* ---- overlay renderer (HangoutOverlay) of the newest window
  ovMounted,
  hangoutData,
  participants,
  currentUserId,
  ovReloads,            \* reloadParticipants calls in flight, oldest first
  avatars,              \* mounted Avatar components, by React key (row id)
  timers,               \* pending setTimeout callbacks of the overlay, oldest first
  sends,                \* avatar-action publishes awaited by triggerAction
  burst,                \* history: capture-mode changes since a chosen hover-enter
  commits,              \* hangout_sessions updates sent by handleMouseUp, in flight
  published,            \* history: the last avatar-move payload this overlay sent
  hist                  \* history: events that leave no trace in the program's state

envVars == <<mainRev, chatMounted, conversation>>
storeVars == <<sessions, nextRowId>>
primState == <<hangoutParticipants, isInHangout, joiningHangout, joinPc, leaveReqs>>
primVars == <<primState, primReloads>>
mainState == <<hangoutWindow, currentHangoutData, windows>>
pointerVars == <<timers, sends, burst>>
ovState == <<ovMounted, hangoutData, participants, currentUserId, avatars, pointerVars>>
rendererVars == <<ovState, ovReloads>>
dragVars == <<commits, published>>
vars == <<envVars, storeVars, primVars, mainState, rendererVars, dragVars, hist>>

\* ------------------------------------------------------------------ values
NoData == [set |-> FALSE, participants |-> {}]
Data(rows) == [set |-> TRUE, participants |-> rows]

\* The conversation whose hangout_sessions rows are the variable sessions, and
\* another conversation of the user, in whose hangout the local user is not.
ThisConversation == "C1"
OtherConversation == "C2"
OtherSessions == {Row(MaxRowId + 1, "B", 300, 150)}

\* An in-flight loadHangoutParticipants call; join: joinHangout awaits it;
\* conv: the conversation.id of the render that made the call.
\* superseded is history: a call started after this one has been applied.
NewLoad(j) ==
  [stage |-> "sessions", data |-> {}, superseded |-> FALSE, join |-> j,
   conv |-> ThisConversation]

\* An in-flight reloadParticipants call.  superseded as above.
NewReload == [stage |-> "sessions", data |-> {}, superseded |-> FALSE]

\* A reload that completes leaves the list; every reload that started before
\* it is from now on older than the applied roster.
Complete(reloads, i) ==
  [k \in 1..(Len(reloads) - 1) |->
     IF k < i THEN [reloads[k] EXCEPT !.superseded = TRUE] ELSE reloads[k + 1]]

NoWindow == 0
NewWindowCapturing(rows) ==
  [state |-> "open", loaded |-> FALSE, ignore |-> FALSE, initData |-> rows]
NewWindow(rows) == [state |-> "open", loaded |-> FALSE, ignore |-> TRUE, initData |-> rows]
\* hangoutWindow && !hangoutWindow.isDestroyed()
Exists(w) == w # NoWindow /\ windows[w].state # "destroyed"
Front == Len(windows)
RendererAlive == Front > 0 /\ windows[Front].state # "destroyed"

\* ------------------------------------------------------- Avatar components
Min(a, b) == IF a < b THEN a ELSE b
Max(a, b) == IF a > b THEN a ELSE b

\* window.innerWidth / window.innerHeight of the overlay
Screen == [innerWidth |-> 450, innerHeight |-> 350]
AvatarWidth == 150
AvatarHeight == 200
\* handleMouseMove: Math.max(0, Math.min(window.innerWidth - 150, v))
ClampUpper(limit, v) == Min(limit, v)
Clamp(limit, v) == Max(0, Min(limit, v))
ClampX(v) == Clamp(Screen.innerWidth - AvatarWidth, v)
ClampY(v) == Clamp(Screen.innerHeight - AvatarHeight, v)

\* pointer positions of mouse events; the last one lies outside the window
Pointers ==
  {[clientX |-> 120, clientY |-> 130], [clientX |-> 320, clientY |-> 180],
   [clientX |-> 500, clientY |-> 600]}
\* the pointer position of a drag that moves the avatar off its join position
DragTargets == {[clientX |-> 320, clientY |-> 180]}
\* where inside the avatar the button goes down: e.clientX - rect.left, ...
Grabs == {[x |-> 20, y |-> 30]}
\* pointer positions and grab offsets that take the avatar over every edge of
\* the window: the document listener also gets the moves outside of it
EdgePointers ==
  Pointers \cup {[clientX |-> 10, clientY |-> 20], [clientX |-> 0 - 30, clientY |-> 600],
                 [clientX |-> 449, clientY |-> 0 - 40]}
EdgeGrabs == Grabs \cup {[x |-> 140, y |-> 190]}
\* other window sizes, some smaller than an avatar, and unclamped coordinates
SurfaceSizes == {0, 100, 150, 200, 450}
Coordinates == {0 - 200, 0 - 1, 0, 1, 50, 149, 150, 151, 300, 600}
\* positions carried by the avatar-move events of other clients
Positions == {[x |-> 100, y |-> 100], [x |-> 300, y |-> 150]}

DebounceMs == 100
GestureMs == 2000
\* the step of the clock
TickMs == DebounceMs \div 2
\* elapsed times are not counted beyond this
ShownCap == GestureMs + 2 * DebounceMs

NoAction == "none"
Actions == {"wave"}
Keys == 1..(MaxRowId + 1)

\* upX, upY: the position in the closure of the registered handleMouseUp.
\* shownMs is history: the time since triggerAction set currentAction.
NewAvatar(p) ==
  [user_id |-> p.user_id, x |-> p.avatar_x, y |-> p.avatar_y,
   isDragging |-> FALSE, isHovering |-> FALSE, showActions |-> FALSE,
   currentAction |-> NoAction, shownMs |-> 0,
   offX |-> 0, offY |-> 0, upX |-> 0, upY |-> 0]

SyncPositionAlways(a, p) == [a EXCEPT !.x = p.avatar_x, !.y = p.avatar_y]

\* "Sync position from props": if (!isDragging) setPosition(props)
SyncPosition(a, p) ==
  IF ~a.isDragging THEN [a EXCEPT !.x = p.avatar_x, !.y = p.avatar_y] ELSE a

\* a render whose kept avatars do not follow their props
RenderKeepsPosition(av, hd, parts) ==
  IF ~hd.set \/ parts = {} THEN << >>
  ELSE [k \in {p.id : p \in parts} |->
          LET p == CHOOSE q \in parts : q.id = k
          IN IF k \in DOMAIN av THEN av[k] ELSE NewAvatar(p)]

\* HangoutOverlay render: null without data or with an empty roster, else one
\* Avatar per participant keyed by the row id; a kept key keeps its state.
Render(av, hd, parts) ==
  IF ~hd.set \/ parts = {} THEN << >>
  ELSE [k \in {p.id : p \in parts} |->
          LET p == CHOOSE q \in parts : q.id = k
          IN IF k \in DOMAIN av THEN SyncPosition(av[k], p) ELSE NewAvatar(p)]

\* the overlay's postgres_changes subscription exists once hangoutData is set
OvSubscribed == ovMounted /\ hangoutData.set

\* ------------------------------------------------------------------- Init
\* stray: the user id of the last avatar-move event that matched no entry of
\* the overlay's roster.  primKept, ovKept: a hangout_sessions read of the
\* window's reload failed and no reload of the window has been applied since.
\* opened: the payload of the last open-hangout-window request handled.
\* foreign: the user id of the last avatar-move event received that an overlay
\* of another conversation published.  heard: the last avatar-action event
\* received.  dropped: a reload of the overlay has unmounted an avatar that was
\* being dragged, and no drag has started since.  joined: a joinHangout call
\* has inserted its row and its loadHangoutParticipants call has returned data.
\* late: a position update has run when its participant had no row.
\* resynced: the last reload of the overlay gave the avatar of another
\* participant a position it did not show, and no avatar-move event has
\* arrived since.
NoHist == [stray |-> NoUser, primKept |-> FALSE, ovKept |-> FALSE, opened |-> NoData,
           foreign |-> NoUser, heard |-> [userId |-> NoUser, action |-> NoAction],
           dropped |-> FALSE, joined |-> FALSE, late |-> FALSE,
           resynced |-> FALSE]

NoPayload == [userId |-> NoUser, x |-> 0, y |-> 0]
NoBurst == [open |-> FALSE, age |-> 0, changes |-> 0]

RendererInit ==
  /\ commits = << >>
  /\ published = NoPayload
  /\ timers = << >>
  /\ sends = << >>
  /\ burst = NoBurst
  /\ ovMounted = FALSE
  /\ hangoutData = NoData
  /\ participants = {}
  /\ currentUserId = NoUser
  /\ ovReloads = << >>
  /\ avatars = << >>

\* a renderer process that has just started, or is gone
RendererReset ==
  /\ ovMounted' = FALSE
  /\ hangoutData' = NoData
  /\ participants' = {}
  /\ currentUserId' = NoUser
  /\ ovReloads' = << >>
  /\ avatars' = << >>
  /\ timers' = << >>
  /\ sends' = << >>
  /\ burst' = NoBurst

\* The table may hold rows from an earlier run of any client.
StoreInit ==
  \E S \in SUBSET Users :
    /\ Cardinality(S) < MaxRowId
    /\ \E f \in [S -> 1..Cardinality(S)] :
         /\ \A u, v \in S : u # v => f[u] # f[v]
         /\ sessions = {Row(f[u], u, 100, 100) : u \in S}
    /\ nextRowId = Cardinality(S) + 1

\* The ChatArea mount effect has just called loadHangoutParticipants.
PrimaryInit ==
  /\ chatMounted = TRUE
  /\ hangoutParticipants = {}
  /\ isInHangout = FALSE
  /\ joiningHangout = FALSE
  /\ joinPc = "idle"
  /\ leaveReqs = 0
  /\ primReloads = <<NewLoad(FALSE)>>

MainInit ==
  /\ hangoutWindow = NoWindow
  /\ currentHangoutData = NoData
  /\ windows = << >>

Init ==
  /\ mainRev \in {"current", "legacy"}
  /\ conversation = ThisConversation
  /\ StoreInit
  /\ PrimaryInit
  /\ MainInit
  /\ RendererInit
  /\ hist = NoHist

\* ============================================================ main process
\* IPC between a renderer and the main process is in order and the sender
\* never looks at the receiver's state, so a message is handled where it is
\* sent.

\* ipcRenderer.on('hangout-update') callback registered by onHangoutUpdate; a
\* message that arrives before the listener is registered is lost
OnHangoutUpdate(rows) ==
  IF ovMounted
  THEN /\ hangoutData' = Data(rows)
       /\ participants' = rows
       /\ avatars' = Render(avatars, Data(rows), rows)
       /\ UNCHANGED <<ovMounted, currentUserId, ovReloads, pointerVars>>
  ELSE UNCHANGED rendererVars

\* createHangoutWindow, unnamed/part_002: an existing window is only sent the roster
CreateHangoutWindowCurrent(rows) ==
  /\ currentHangoutData' = Data(rows)
  /\ IF Exists(hangoutWindow)
     THEN /\ OnHangoutUpdate(rows)
          /\ UNCHANGED <<hangoutWindow, windows>>
     ELSE /\ Len(windows) < MaxWindows
          /\ hangoutWindow' = Len(windows) + 1
          /\ windows' = Append(windows, NewWindow(rows))
          /\ RendererReset

\* createHangoutWindow, src/main.ts: an existing window is closed and replaced
CreateHangoutWindowLegacy(rows) ==
  /\ UNCHANGED currentHangoutData
  /\ Len(windows) < MaxWindows
  /\ hangoutWindow' = Len(windows) + 1
  /\ windows' = Append(IF Exists(hangoutWindow)
                       THEN [windows EXCEPT ![hangoutWindow].state = "closing"]
                       ELSE windows,
                       NewWindow(rows))
  /\ RendererReset

\* ipcMain.on('open-hangout-window')
CreateHangoutWindow(rows) ==
  IF mainRev = "current" THEN CreateHangoutWindowCurrent(rows)
  ELSE CreateHangoutWindowLegacy(rows)

\* ipcMain.on('close-hangout-window')
CloseHangoutWindow ==
  IF Exists(hangoutWindow)
  THEN /\ windows' = [windows EXCEPT ![hangoutWindow].state = "closing"]
       /\ hangoutWindow' = NoWindow
  ELSE UNCHANGED <<windows, hangoutWindow>>

\* ipcMain.on('set-ignore-mouse-events')
SetIgnoreMouseEvents(ws, ignore) ==
  IF Exists(hangoutWindow) THEN [ws EXCEPT ![hangoutWindow].ignore = ignore] ELSE ws

\* hangoutWindow.on('closed'): the window w is gone; the callback clears the
\* module variable whatever it refers to
WindowClosed(w) ==
  /\ w \in 1..Len(windows)
  /\ windows[w].state = "closing"
  /\ windows' = [windows EXCEPT ![w].state = "destroyed"]
  /\ hangoutWindow' = NoWindow
  /\ IF w = Front THEN RendererReset ELSE UNCHANGED rendererVars
  /\ UNCHANGED <<envVars, hist, dragVars, storeVars, primVars, currentHangoutData>>

\* webContents.once('did-finish-load') of window w: the roster captured when w
\* was created goes to whatever hangoutWindow refers to now
DidFinishLoad(w) ==
  /\ w \in 1..Len(windows)
  /\ windows[w].state # "destroyed"
  /\ ~windows[w].loaded
  /\ windows' = [windows EXCEPT ![w].loaded = TRUE]
  /\ IF Exists(hangoutWindow)
     THEN OnHangoutUpdate(windows[w].initData)
     ELSE UNCHANGED rendererVars
  /\ UNCHANGED <<envVars, hist, dragVars, storeVars, primVars, hangoutWindow, currentHangoutData>>

\* --------------------------------------------------- change notifications
\* A change of the table reaches every subscriber, whose callback starts a
\* reload; the reload's read happens at any later time.
PrimSubscribed == chatMounted /\ conversation = ThisConversation
CanNotify ==
  /\ PrimSubscribed => Len(primReloads) < MaxInflight
  /\ Len(ovReloads) < MaxInflight
NotifyOverlay ==
  ovReloads' = IF OvSubscribed THEN Append(ovReloads, NewReload) ELSE ovReloads
Notify ==
  /\ primReloads' = IF PrimSubscribed THEN Append(primReloads, NewLoad(FALSE)) ELSE primReloads
  /\ NotifyOverlay

\* =========================================================== primary window
\* loadHangoutParticipants: the hangout_sessions select returns rows
LoadSessionsDone(i) ==
  /\ i \in 1..Len(primReloads)
  /\ primReloads[i].stage = "sessions"
  /\ primReloads' = [primReloads EXCEPT
                      ![i].stage = "profiles",
                      ![i].data = IF primReloads[i].conv = ThisConversation
                                  THEN sessions ELSE OtherSessions]
  /\ UNCHANGED <<envVars, hist, dragVars, storeVars, primState, mainState, rendererVars>>

\* joinHangout continues after "await loadHangoutParticipants()"
JoinReturns(r) ==
  IF r.join
  THEN joiningHangout' = FALSE /\ joinPc' = "idle"
  ELSE UNCHANGED <<joiningHangout, joinPc>>

\* loadHangoutParticipants: the select fails, data is null, nothing is set
LoadSessionsFail(i) ==
  /\ i \in 1..Len(primReloads)
  /\ primReloads[i].stage = "sessions"
  /\ primReloads' = RemoveAt(primReloads, i)
  /\ JoinReturns(primReloads[i])
  /\ hist' = [hist EXCEPT !.primKept = TRUE]
  /\ UNCHANGED <<envVars, dragVars, storeVars, hangoutParticipants, isInHangout, leaveReqs,
                 mainState, rendererVars>>

\* a reload that requests the overlay window for every roster that has a row
LoadProfilesDoneOpensAny(i) ==
  /\ i \in 1..Len(primReloads)
  /\ primReloads[i].stage = "profiles"
  /\ LET data == primReloads[i].data IN
       /\ hangoutParticipants' = data
       /\ isInHangout' = HasUser(data, LocalUser)
       /\ IF data # {}
          THEN CreateHangoutWindow(data)
          ELSE UNCHANGED <<mainState, rendererVars>>
  /\ primReloads' = Complete(primReloads, i)
  /\ JoinReturns(primReloads[i])
  /\ hist' = [hist EXCEPT !.primKept = FALSE,
                          !.opened = IF primReloads[i].data # {}
                                     THEN Data(primReloads[i].data) ELSE @,
                          !.joined = @ \/ primReloads[i].join]
  /\ UNCHANGED <<envVars, dragVars, storeVars, leaveReqs>>

\* loadHangoutParticipants: the profiles select returns; the roster is set and,
\* when the current user is in it, the overlay window is requested
LoadProfilesDone(i) ==
  /\ i \in 1..Len(primReloads)
  /\ primReloads[i].stage = "profiles"
  /\ LET data == primReloads[i].data IN
       /\ hangoutParticipants' = data
       /\ isInHangout' = HasUser(data, LocalUser)
       /\ IF HasUser(data, LocalUser)
          THEN CreateHangoutWindow(data)
          ELSE UNCHANGED <<mainState, rendererVars>>
  /\ primReloads' = Complete(primReloads, i)
  /\ JoinReturns(primReloads[i])
  /\ hist' = [hist EXCEPT !.primKept = FALSE,
                          !.opened = IF HasUser(primReloads[i].data, LocalUser)
                                     THEN Data(primReloads[i].data) ELSE @,
                          !.joined = @ \/ primReloads[i].join]
  /\ UNCHANGED <<envVars, dragVars, storeVars, leaveReqs>>

\* click on the Hangout button while it reads "Hangout"
JoinHangout ==
  /\ chatMounted
  /\ ~isInHangout /\ ~joiningHangout /\ joinPc \in {"idle", "conflict"}
  /\ joiningHangout' = TRUE
  /\ joinPc' = "insert"
  /\ UNCHANGED <<envVars, hist, dragVars, storeVars, hangoutParticipants, isInHangout, leaveReqs,
                 primReloads, mainState, rendererVars>>

\* joinHangout: the insert succeeds; the subscribers are notified and
\* joinHangout itself calls loadHangoutParticipants
JoinInsertDone ==
  /\ joinPc = "insert"
  /\ ~UniqueViolation(sessions, LocalUser)
  /\ nextRowId <= MaxRowId
  /\ Len(primReloads) + 2 <= MaxInflight
  /\ Len(ovReloads) < MaxInflight
  /\ \E x \in JoinXs, y \in JoinYs :
       sessions' = DbInsert(sessions, Row(nextRowId, LocalUser, x, y))
  /\ nextRowId' = nextRowId + 1
  /\ primReloads' = primReloads \o <<NewLoad(TRUE), NewLoad(FALSE)>>
  /\ NotifyOverlay
  /\ isInHangout' = TRUE
  /\ joinPc' = "reload"
  /\ UNCHANGED <<envVars, hist, dragVars, hangoutParticipants, joiningHangout, leaveReqs,
                 mainState, ovState>>

\* joinHangout: the insert is refused because the pair has a row; the error is
\* logged.  joinPc keeps the outcome until the next call.
JoinInsertError ==
  /\ joinPc = "insert"
  /\ UniqueViolation(sessions, LocalUser)
  /\ joiningHangout' = FALSE
  /\ joinPc' = "conflict"
  /\ UNCHANGED <<envVars, hist, dragVars, storeVars, hangoutParticipants, isInHangout, leaveReqs,
                 primReloads, mainState, rendererVars>>

\* click on the Hangout button while it reads "Leave Hangout"
LeaveHangout ==
  /\ chatMounted
  /\ isInHangout /\ ~joiningHangout
  /\ leaveReqs < MaxLeaves
  /\ leaveReqs' = leaveReqs + 1
  /\ UNCHANGED <<envVars, hist, dragVars, storeVars, hangoutParticipants, isInHangout,
                 joiningHangout, joinPc, primReloads, mainState, rendererVars>>

\* leaveHangout: the delete has run (ok: it took effect); its result is not
\* looked at, the flag is cleared and the overlay is asked to close
LeaveDeleteDone(ok) ==
  /\ leaveReqs > 0
  /\ leaveReqs' = leaveReqs - 1
  /\ IF ok /\ HasUser(sessions, LocalUser)
     THEN /\ CanNotify
          /\ sessions' = DbDelete(sessions, LocalUser)
          /\ Notify
     ELSE UNCHANGED <<sessions, primReloads, ovReloads>>
  /\ isInHangout' = FALSE
  /\ CloseHangoutWindow
  /\ UNCHANGED <<envVars, hist, dragVars, nextRowId, hangoutParticipants, joiningHangout, joinPc,
                 currentHangoutData, ovState>>

\* openingChat is set or activeConversation becomes null: ChatArea unmounts,
\* its state is dropped and its channel removed.  Taken when no call is in
\* flight.
ChatUnmount ==
  /\ chatMounted
  /\ primReloads = << >> /\ joinPc \in {"idle", "conflict"} /\ leaveReqs = 0
  /\ chatMounted' = FALSE
  /\ hangoutParticipants' = {}
  /\ isInHangout' = FALSE
  /\ joiningHangout' = FALSE
  /\ joinPc' = "idle"
  /\ UNCHANGED <<mainRev, conversation, hist, dragVars, storeVars, leaveReqs, primReloads,
                 mainState, rendererVars>>

\* ChatArea mounts for the conversation: the effect calls loadHangoutParticipants
ChatMount ==
  /\ ~chatMounted
  /\ chatMounted' = TRUE
  /\ primReloads' = <<NewLoad(FALSE)>>
  /\ UNCHANGED <<mainRev, conversation, hist, dragVars, storeVars, primState, mainState,
                 rendererVars>>

\* click on another conversation of the list: setActiveConversation(convo).
\* ChatArea stays mounted with its state and gets the new conversation; the
\* effect's cleanup removes the channel, and the effect runs again and calls
\* loadHangoutParticipants for the new conversation.  The calls in flight go on.
SwitchConversation ==
  /\ chatMounted
  /\ conversation = ThisConversation
  /\ Len(primReloads) < MaxInflight
  /\ conversation' = OtherConversation
  /\ primReloads' = Append(primReloads, [NewLoad(FALSE) EXCEPT !.conv = OtherConversation])
  /\ UNCHANGED <<mainRev, chatMounted, hist, dragVars, storeVars, primState, mainState,
                 rendererVars>>

\* ========================================================== other clients
RemoteJoin(u) ==
  /\ u \in RemoteUsers
  /\ ~UniqueViolation(sessions, u)
  /\ nextRowId <= MaxRowId
  /\ CanNotify
  /\ \E x \in JoinXs, y \in JoinYs : sessions' = DbInsert(sessions, Row(nextRowId, u, x, y))
  /\ nextRowId' = nextRowId + 1
  /\ Notify
  /\ UNCHANGED <<envVars, hist, dragVars, primState, mainState, ovState>>

RemoteLeave(u) ==
  /\ u \in RemoteUsers
  /\ HasUser(sessions, u)
  /\ CanNotify
  /\ sessions' = DbDelete(sessions, u)
  /\ Notify
  /\ UNCHANGED <<envVars, hist, dragVars, nextRowId, primState, mainState, ovState>>

\* ======================================================== overlay renderer
\* HangoutOverlay mount effects: set-ignore-mouse-events(true), the
\* hangout-update listener, then request-hangout-data, which only the main
\* process of unnamed/part_002 answers
OverlayMountInitial ==
  /\ RendererAlive
  /\ ~ovMounted
  /\ ovMounted' = TRUE
  /\ windows' = SetIgnoreMouseEvents(windows, TRUE)
  /\ IF mainRev = "current" /\ Exists(hangoutWindow) /\ currentHangoutData.set
     THEN /\ hangoutData' = Data(windows[hangoutWindow].initData)
          /\ participants' = windows[hangoutWindow].initData
          /\ avatars' = Render(avatars, hangoutData', participants')
     ELSE UNCHANGED <<hangoutData, participants, avatars>>
  /\ UNCHANGED <<envVars, hist, dragVars, storeVars, primVars, hangoutWindow, currentHangoutData,
                 currentUserId, ovReloads, pointerVars>>

OverlayMount ==
  /\ RendererAlive
  /\ ~ovMounted
  /\ ovMounted' = TRUE
  /\ windows' = SetIgnoreMouseEvents(windows, TRUE)
  /\ IF mainRev = "current" /\ Exists(hangoutWindow) /\ currentHangoutData.set
     THEN /\ hangoutData' = currentHangoutData
          /\ participants' = currentHangoutData.participants
          /\ avatars' = Render(avatars, currentHangoutData, currentHangoutData.participants)
     ELSE UNCHANGED <<hangoutData, participants, avatars>>
  /\ UNCHANGED <<envVars, hist, dragVars, storeVars, primVars, hangoutWindow, currentHangoutData,
                 currentUserId, ovReloads, pointerVars>>

\* supabase.auth.getUser() resolves
GetUserDone ==
  /\ ovMounted
  /\ currentUserId = NoUser
  /\ currentUserId' = LocalUser
  /\ UNCHANGED <<envVars, hist, dragVars, storeVars, primVars, mainState, ovMounted, hangoutData,
                 participants, avatars, ovReloads, pointerVars>>

\* reloadParticipants: the hangout_sessions select returns rows
ReloadSessionsDone(i) ==
  /\ i \in 1..Len(ovReloads)
  /\ ovReloads[i].stage = "sessions"
  /\ ovReloads' = [ovReloads EXCEPT ![i].stage = "profiles", ![i].data = sessions]
  /\ UNCHANGED <<envVars, hist, dragVars, storeVars, primVars, mainState, ovState>>

ReloadSessionsFailClears(i) ==
  /\ i \in 1..Len(ovReloads)
  /\ ovReloads[i].stage = "sessions"
  /\ ovReloads' = RemoveAt(ovReloads, i)
  /\ participants' = {}
  /\ avatars' = << >>
  /\ hist' = [hist EXCEPT !.ovKept = TRUE]
  /\ UNCHANGED <<envVars, dragVars, storeVars, primVars, mainState, ovMounted, hangoutData,
                 currentUserId, pointerVars>>

\* reloadParticipants: the select fails, data is null
ReloadSessionsFail(i) ==
  /\ i \in 1..Len(ovReloads)
  /\ ovReloads[i].stage = "sessions"
  /\ ovReloads' = RemoveAt(ovReloads, i)
  /\ hist' = [hist EXCEPT !.ovKept = TRUE]
  /\ UNCHANGED <<envVars, dragVars, storeVars, primVars, mainState, ovState>>

\* the rows give another participant's avatar a position it does not show
Replaces(av, rows) ==
  \E p \in rows :
    /\ p.user_id \in RemoteUsers
    /\ p.id \in DOMAIN av
    /\ <<av[p.id].x, av[p.id].y>> # <<p.avatar_x, p.avatar_y>>

\* the avatars of av that are being dragged and have no entry in av2
Unmounted(av, av2) == {k \in DOMAIN av : av[k].isDragging /\ k \notin DOMAIN av2}

ReloadProfilesDoneCommits(i) ==
  /\ i \in 1..Len(ovReloads)
  /\ ovReloads[i].stage = "profiles"
  /\ participants' = ovReloads[i].data
  /\ avatars' = Render(avatars, hangoutData, ovReloads[i].data)
  /\ ovReloads' = Complete(ovReloads, i)
  /\ hist' = [hist EXCEPT !.ovKept = FALSE,
                          !.dropped = @ \/ Unmounted(avatars, avatars') # {},
                          !.resynced = Replaces(avatars, ovReloads[i].data)]
  /\ commits' = IF Unmounted(avatars, avatars') # {}
                THEN Append(commits, [user_id |-> LocalUser, x |-> 0, y |-> 0])
                ELSE commits
  /\ UNCHANGED <<envVars, published, storeVars, primVars, mainState, ovMounted, hangoutData,
                 currentUserId, pointerVars>>

\* reloadParticipants: the profiles select returns and setParticipants runs;
\* an Avatar whose row is gone unmounts and its drag effect's cleanup removes
\* the document listeners
ReloadProfilesDone(i) ==
  /\ i \in 1..Len(ovReloads)
  /\ ovReloads[i].stage = "profiles"
  /\ participants' = ovReloads[i].data
  /\ avatars' = Render(avatars, hangoutData, ovReloads[i].data)
  /\ ovReloads' = Complete(ovReloads, i)
  /\ hist' = [hist EXCEPT !.ovKept = FALSE,
                          !.dropped = @ \/ Unmounted(avatars, avatars') # {},
                          !.resynced = Replaces(avatars, ovReloads[i].data)]
  /\ UNCHANGED <<envVars, dragVars, storeVars, primVars, mainState, ovMounted, hangoutData,
                 currentUserId, pointerVars>>

\* ------------------------------------------------------ avatar-move events
\* .on('broadcast', {event: 'avatar-move'}): prev.map(p => p.user_id ===
\* payload.userId ? {...p, avatar_x: payload.x, avatar_y: payload.y} : p)
ApplyMoveUpsert(parts, u, x, y) ==
  IF HasUser(parts, u)
  THEN {IF p.user_id = u THEN [p EXCEPT !.avatar_x = x, !.avatar_y = y] ELSE p : p \in parts}
  ELSE parts \cup {Row(MaxRowId + 1, u, x, y)}
ApplyMoveAll(parts, u, x, y) ==
  IF HasUser(parts, u)
  THEN {[p EXCEPT !.avatar_x = x, !.avatar_y = y] : p \in parts}
  ELSE parts
ApplyMoveSwapped(parts, u, x, y) ==
  {IF p.user_id = u THEN [p EXCEPT !.avatar_x = y, !.avatar_y = x] ELSE p : p \in parts}
ApplyMove(parts, u, x, y) ==
  {IF p.user_id = u THEN [p EXCEPT !.avatar_x = x, !.avatar_y = y] ELSE p : p \in parts}

\* an avatar-move event published by another client arrives
AvatarMove(u, pos) ==
  /\ ovMounted
  /\ participants' = ApplyMove(participants, u, pos.x, pos.y)
  /\ avatars' = Render(avatars, hangoutData, participants')
  /\ hist' = [hist EXCEPT !.stray = IF HasUser(participants, u) THEN @ ELSE u,
                          !.resynced = FALSE]
  /\ UNCHANGED <<envVars, dragVars, storeVars, primVars, mainState, ovMounted, hangoutData,
                 currentUserId, ovReloads, pointerVars>>

\* An avatar-move event published by an overlay that shows another
\* conversation arrives: every overlay sends to and subscribes to the one
\* channel 'hangout-positions', and the payload names no conversation.
ForeignMove(u, pos) ==
  /\ ovMounted
  /\ participants' = ApplyMove(participants, u, pos.x, pos.y)
  /\ avatars' = Render(avatars, hangoutData, participants')
  /\ hist' = [hist EXCEPT !.foreign = u, !.resynced = FALSE]
  /\ UNCHANGED <<envVars, dragVars, storeVars, primVars, mainState, ovMounted, hangoutData,
                 currentUserId, ovReloads, pointerVars>>

\* .on('broadcast', {event: 'avatar-action'}): handleAvatarAction logs the
\* payload and sets nothing
AvatarAction(u, action) ==
  /\ ovMounted
  /\ hist' = [hist EXCEPT !.heard = [userId |-> u, action |-> action]]
  /\ UNCHANGED <<envVars, dragVars, storeVars, primVars, mainState, rendererVars>>

\* ----------------------------------------------------------- pointer input
\* BrowserWindow.setIgnoreMouseEvents: an ignoring window gets no mouse
\* events, except that src/main.ts asks for mouse moves to be forwarded
\* ({forward: true}), which keeps mouseenter and mouseleave alive
Forwards == mainRev = "legacy"
Captures == RendererAlive /\ ~windows[Front].ignore
HoverDelivered == RendererAlive /\ (~windows[Front].ignore \/ Forwards)

Hovered == {k \in DOMAIN avatars : avatars[k].isHovering}
Dragged == {k \in DOMAIN avatars : avatars[k].isDragging}

\* history: a capture-mode change of the overlay's window inside the burst
Observe(ws) ==
  burst' = IF burst.open /\ ws[Front].ignore # windows[Front].ignore
           THEN [burst EXCEPT !.changes = Min(@ + 1, MaxTimers + 1)]
           ELSE burst

ReleaseTimer == [kind |-> "release", key |-> 0, due |-> DebounceMs]
ClearTimer(k) == [kind |-> "clear", key |-> k, due |-> GestureMs]

\* handleMouseEnter.  One pointer: it enters an avatar only when it is over
\* none.  start: the burst of hover events that is watched begins here.
MouseEnter(k, start) ==
  /\ k \in DOMAIN avatars
  /\ HoverDelivered
  /\ Hovered = {} /\ Dragged = {}
  /\ avatars' = [avatars EXCEPT ![k].isHovering = TRUE]
  /\ windows' = SetIgnoreMouseEvents(windows, FALSE)
  /\ IF start
     THEN burst' = [open |-> TRUE, age |-> 0,
                    changes |-> IF windows'[Front].ignore # windows[Front].ignore
                                THEN 1 ELSE 0]
     ELSE Observe(windows')
  /\ UNCHANGED <<envVars, hist, dragVars, storeVars, primVars, hangoutWindow, currentHangoutData,
                 ovMounted, hangoutData, participants, currentUserId, ovReloads,
                 timers, sends>>

\* handleMouseLeave: if (!isDragging && !showActions) setTimeout(..., 100)
MouseLeave(k) ==
  /\ k \in DOMAIN avatars
  /\ HoverDelivered
  /\ avatars[k].isHovering
  /\ avatars' = [avatars EXCEPT ![k].isHovering = FALSE]
  /\ IF ~avatars[k].isDragging /\ ~avatars[k].showActions
     THEN /\ Len(timers) < MaxTimers
          /\ timers' = Append(timers, ReleaseTimer)
     ELSE UNCHANGED timers
  /\ UNCHANGED <<envVars, hist, dragVars, storeVars, primVars, mainState, ovMounted, hangoutData,
                 participants, currentUserId, ovReloads, sends, burst>>

\* the callback of handleMouseLeave's setTimeout
ReleaseFire(i) ==
  /\ i \in 1..Len(timers)
  /\ timers[i].kind = "release" /\ timers[i].due = 0
  /\ timers' = RemoveAt(timers, i)
  /\ windows' = SetIgnoreMouseEvents(windows, TRUE)
  /\ Observe(windows')
  /\ UNCHANGED <<envVars, hist, dragVars, storeVars, primVars, hangoutWindow, currentHangoutData,
                 ovMounted, hangoutData, participants, currentUserId, avatars, ovReloads,
                 sends>>

MouseDownAny(k, g) ==
  /\ k \in DOMAIN avatars
  /\ Captures
  /\ avatars[k].isHovering /\ ~avatars[k].isDragging
  /\ avatars' = [avatars EXCEPT ![k].isDragging = TRUE, ![k].showActions = FALSE,
                                ![k].offX = g.x, ![k].offY = g.y,
                                ![k].upX = avatars[k].x, ![k].upY = avatars[k].y]
  /\ hist' = [hist EXCEPT !.dropped = FALSE]
  /\ UNCHANGED <<envVars, dragVars, storeVars, primVars, mainState, ovMounted, hangoutData,
                 participants, currentUserId, ovReloads, pointerVars>>

\* handleMouseDown: if (!isCurrentUser) return; the drag effect then registers
\* handleMouseMove and a handleMouseUp that holds the position of this render
MouseDown(k, g) ==
  /\ k \in DOMAIN avatars
  /\ Captures
  /\ avatars[k].isHovering /\ ~avatars[k].isDragging
  /\ IF avatars[k].user_id = currentUserId
     THEN /\ avatars' = [avatars EXCEPT ![k].isDragging = TRUE, ![k].showActions = FALSE,
                                        ![k].offX = g.x, ![k].offY = g.y,
                                        ![k].upX = avatars[k].x, ![k].upY = avatars[k].y]
          /\ hist' = [hist EXCEPT !.dropped = FALSE]
     ELSE UNCHANGED <<avatars, hist>>
  /\ UNCHANGED <<envVars, dragVars, storeVars, primVars, mainState, ovMounted, hangoutData,
                 participants, currentUserId, ovReloads, pointerVars>>

MouseMoveCommits(k, ptr) ==
  /\ k \in DOMAIN avatars
  /\ avatars[k].isDragging
  /\ Len(commits) < MaxInflight
  /\ LET newX == ClampX(ptr.clientX - avatars[k].offX)
         newY == ClampY(ptr.clientY - avatars[k].offY)
     IN /\ avatars' = [avatars EXCEPT ![k].x = newX, ![k].y = newY]
        /\ published' = [userId |-> avatars[k].user_id, x |-> newX, y |-> newY]
        /\ commits' = Append(commits, [user_id |-> avatars[k].user_id, x |-> newX, y |-> newY])
  /\ UNCHANGED <<envVars, hist, storeVars, primVars, mainState, ovMounted, hangoutData,
                 participants, currentUserId, ovReloads, pointerVars>>

\* handleMouseMove: setPosition and the avatar-move broadcast
MouseMove(k, ptr) ==
  /\ k \in DOMAIN avatars
  /\ avatars[k].isDragging
  /\ LET newX == ClampX(ptr.clientX - avatars[k].offX)
         newY == ClampY(ptr.clientY - avatars[k].offY)
     IN /\ avatars' = [avatars EXCEPT ![k].x = newX, ![k].y = newY]
        /\ published' = [userId |-> avatars[k].user_id, x |-> newX, y |-> newY]
  /\ UNCHANGED <<envVars, hist, commits, storeVars, primVars, mainState, ovMounted, hangoutData,
                 participants, currentUserId, ovReloads, pointerVars>>

\* the render that follows setPosition commits and the drag effect runs again
\* (deps [isDragging, position, ...]): the listeners now hold the new position
DragEffect(k) ==
  /\ k \in DOMAIN avatars
  /\ avatars[k].isDragging
  /\ <<avatars[k].upX, avatars[k].upY>> # <<avatars[k].x, avatars[k].y>>
  /\ avatars' = [avatars EXCEPT ![k].upX = avatars[k].x, ![k].upY = avatars[k].y]
  /\ UNCHANGED <<envVars, hist, dragVars, storeVars, primVars, mainState, ovMounted, hangoutData,
                 participants, currentUserId, ovReloads, pointerVars>>

Commit(a) == [user_id |-> a.user_id, x |-> a.upX, y |-> a.upY]

\* handleMouseUp up to its await, and the sync effect that runs because
\* isDragging changed.  click: the button went up over the avatar, so the
\* click handler follows: isCurrentUser && setShowActions(!showActions)
MouseUp(k, click) ==
  /\ k \in DOMAIN avatars
  /\ avatars[k].isDragging
  /\ Len(commits) < MaxInflight
  /\ click => avatars[k].isHovering
  /\ LET p == CHOOSE q \in participants : q.id = k
         a == [avatars[k] EXCEPT !.isDragging = FALSE, !.upX = 0, !.upY = 0,
                                 !.showActions = click]
     IN avatars' = [avatars EXCEPT ![k] = SyncPosition(a, p)]
  /\ windows' = SetIgnoreMouseEvents(windows, TRUE)
  /\ Observe(windows')
  /\ commits' = Append(commits, Commit(avatars[k]))
  /\ UNCHANGED <<envVars, hist, published, storeVars, primVars, hangoutWindow, currentHangoutData,
                 ovMounted, hangoutData, participants, currentUserId, ovReloads,
                 timers, sends>>

\* a commit that writes the row of its participant when there is none
CommitDoneUpserts(i, ok) ==
  /\ i \in 1..Len(commits)
  /\ commits' = RemoveAt(commits, i)
  /\ IF ok
     THEN /\ CanNotify
          /\ sessions' = IF HasUser(sessions, commits[i].user_id)
                         THEN DbUpdate(sessions, commits[i].user_id, commits[i].x, commits[i].y)
                         ELSE DbInsert(sessions, Row(nextRowId, commits[i].user_id,
                                                     commits[i].x, commits[i].y))
          /\ Notify
     ELSE UNCHANGED <<sessions, primReloads, ovReloads>>
  /\ hist' = IF ok /\ ~HasUser(sessions, commits[i].user_id)
             THEN [hist EXCEPT !.late = TRUE]
             ELSE hist
  /\ UNCHANGED <<envVars, published, nextRowId, primState, mainState, ovState>>

\* the update of handleMouseUp reaches the table (ok) or is lost.  An update
\* changes the rows its filters match (.eq conversation_id, .eq user_id):
\* with no row of the participant it changes nothing and no change is
\* notified.  hist.late: an update ran when its participant had no row.
CommitDone(i, ok) ==
  /\ i \in 1..Len(commits)
  /\ commits' = RemoveAt(commits, i)
  /\ IF ok /\ HasUser(sessions, commits[i].user_id)
     THEN /\ CanNotify
          /\ sessions' = DbUpdate(sessions, commits[i].user_id, commits[i].x, commits[i].y)
          /\ Notify
     ELSE UNCHANGED <<sessions, primReloads, ovReloads>>
  /\ hist' = IF ok /\ ~HasUser(sessions, commits[i].user_id)
             THEN [hist EXCEPT !.late = TRUE]
             ELSE hist
  /\ UNCHANGED <<envVars, published, nextRowId, primState, mainState, ovState>>

\* ---------------------------------------------------------------- gestures
\* triggerAction up to its await
TriggerAction(k, action) ==
  /\ k \in DOMAIN avatars
  /\ Captures
  /\ avatars[k].user_id = currentUserId /\ avatars[k].showActions
  /\ Len(sends) < MaxInflight
  /\ avatars' = [avatars EXCEPT ![k].currentAction = action, ![k].showActions = FALSE,
                                ![k].shownMs = 0]
  /\ sends' = Append(sends, k)
  /\ UNCHANGED <<envVars, hist, dragVars, storeVars, primVars, mainState, ovMounted, hangoutData,
                 participants, currentUserId, ovReloads, timers, burst>>

\* triggerAction after "await send(...)": setTimeout(..., 2000)
SendDone(i) ==
  /\ i \in 1..Len(sends)
  /\ Len(timers) < MaxTimers
  /\ sends' = RemoveAt(sends, i)
  /\ timers' = Append(timers, ClearTimer(sends[i]))
  /\ UNCHANGED <<envVars, hist, dragVars, storeVars, primVars, mainState, ovMounted, hangoutData,
                 participants, currentUserId, avatars, ovReloads, burst>>

\* the callback of triggerAction's setTimeout: setCurrentAction(null)
ClearFire(i) ==
  /\ i \in 1..Len(timers)
  /\ timers[i].kind = "clear" /\ timers[i].due = 0
  /\ timers' = RemoveAt(timers, i)
  /\ avatars' = IF timers[i].key \in DOMAIN avatars
                THEN [avatars EXCEPT ![timers[i].key].currentAction = NoAction]
                ELSE avatars
  /\ UNCHANGED <<envVars, hist, dragVars, storeVars, primVars, mainState, ovMounted, hangoutData,
                 participants, currentUserId, ovReloads, sends, burst>>

\* -------------------------------------------------------------------- time
\* d milliseconds pass.  A timer runs when it is due, never later.
Tick(d) ==
  /\ RendererAlive
  /\ \A i \in 1..Len(timers) : timers[i].due >= d
  /\ timers' = [i \in 1..Len(timers) |-> [timers[i] EXCEPT !.due = @ - d]]
  /\ avatars' = [k \in DOMAIN avatars |->
                   IF avatars[k].currentAction # NoAction
                   THEN [avatars[k] EXCEPT !.shownMs = Min(@ + d, ShownCap)]
                   ELSE avatars[k]]
  /\ burst' = IF burst.open /\ burst.age + d < DebounceMs
              THEN [burst EXCEPT !.age = @ + d]
              ELSE NoBurst
  /\ <<timers', avatars', burst'>> # <<timers, avatars, burst>>
  /\ UNCHANGED <<envVars, hist, dragVars, storeVars, primVars, mainState, ovMounted, hangoutData,
                 participants, currentUserId, ovReloads, sends>>

\* ================================================================= overlay
\* The overlay of a participant who is in the hangout: the window is open and
\* loaded, the overlay is mounted and has the roster.
InitOverlay ==
  /\ mainRev \in {"current", "legacy"}
  /\ sessions \in {{Row(1, LocalUser, 100, 100)},
                   {Row(1, LocalUser, 100, 100), Row(2, "B", 100, 150)}}
  /\ nextRowId = Cardinality(sessions) + 1
  /\ chatMounted = FALSE
  /\ conversation = ThisConversation
  /\ hangoutParticipants = {}
  /\ isInHangout = FALSE
  /\ joiningHangout = FALSE
  /\ joinPc = "idle"
  /\ leaveReqs = 0
  /\ primReloads = << >>
  /\ hangoutWindow = 1
  /\ currentHangoutData = IF mainRev = "current" THEN Data(sessions) ELSE NoData
  /\ windows = <<[NewWindow(sessions) EXCEPT !.loaded = TRUE]>>
  /\ ovMounted = TRUE
  /\ hangoutData = Data(sessions)
  /\ participants = sessions
  /\ currentUserId = NoUser
  /\ ovReloads = << >>
  /\ avatars = Render(<< >>, hangoutData, participants)
  /\ timers = << >>
  /\ sends = << >>
  /\ burst = NoBurst
  /\ commits = << >>
  /\ published = NoPayload
  /\ hist = NoHist

\* The roster of the overlay: the other clients join and leave, the overlay
\* reloads and receives their avatar-move events.
NextOverlay ==
  \/ \E u \in RemoteUsers : RemoteJoin(u)
  \/ \E u \in RemoteUsers : RemoteLeave(u)
  \/ GetUserDone
  \/ \E i \in 1..MaxInflight : ReloadSessionsDone(i)
  \/ \E i \in 1..MaxInflight : ReloadProfilesDone(i)
  \/ \E u \in Users, pos \in Positions : AvatarMove(u, pos)

SpecOverlay == InitOverlay /\ [][NextOverlay]_vars

\* The broadcast channel of the overlay: the events of the clients of its own
\* conversation and of the overlays of other conversations.
NextChannel ==
  \/ \E u \in RemoteUsers : RemoteJoin(u)
  \/ \E u \in RemoteUsers : RemoteLeave(u)
  \/ GetUserDone
  \/ \E i \in 1..MaxInflight : ReloadSessionsDone(i)
  \/ \E i \in 1..MaxInflight : ReloadProfilesDone(i)
  \/ \E u \in Users, pos \in Positions : AvatarMove(u, pos)
  \/ \E u \in Users, pos \in Positions : ForeignMove(u, pos)
  \/ \E u \in Users, action \in Actions : AvatarAction(u, action)

SpecChannel == InitOverlay /\ [][NextChannel]_vars

\* The pointer over the overlay: hover, drag and the position commit, with
\* the avatar-move events of the other clients and the overlay's reloads.
NextDrag ==
  \/ GetUserDone
  \/ \E i \in 1..MaxInflight : ReloadSessionsDone(i)
  \/ \E i \in 1..MaxInflight : ReloadProfilesDone(i)
  \/ \E u \in Users, pos \in Positions : AvatarMove(u, pos)
  \/ \E k \in Keys : MouseEnter(k, FALSE)
  \/ \E k \in Keys : MouseLeave(k)
  \/ \E i \in 1..MaxTimers : ReleaseFire(i)
  \/ \E k \in Keys, g \in Grabs : MouseDown(k, g)
  \/ \E k \in Keys, ptr \in Pointers : MouseMove(k, ptr)
  \/ \E k \in Keys : DragEffect(k)
  \/ \E k \in Keys : MouseUp(k, FALSE)
  \/ \E i \in 1..MaxInflight, ok \in BOOLEAN : CommitDone(i, ok)
  \/ Tick(DebounceMs)

SpecDrag == InitOverlay /\ [][NextDrag]_vars

\* A drag whose position update the store refuses: no commit succeeds, so no
\* change notification follows, and no other client moves the local avatar.
NextCommitFail ==
  \/ GetUserDone
  \/ \E k \in Keys : MouseEnter(k, FALSE)
  \/ \E k \in Keys : MouseLeave(k)
  \/ \E i \in 1..MaxTimers : ReleaseFire(i)
  \/ \E k \in Keys, g \in Grabs : MouseDown(k, g)
  \/ \E k \in Keys, ptr \in Pointers : MouseMove(k, ptr)
  \/ \E k \in Keys : DragEffect(k)
  \/ \E k \in Keys : MouseUp(k, FALSE)
  \/ \E i \in 1..MaxInflight : CommitDone(i, FALSE)
  \/ Tick(DebounceMs)

SpecCommitFail == InitOverlay /\ [][NextCommitFail]_vars

\* A drag that takes the avatar to and over the edges of the window.
NextMove ==
  \/ GetUserDone
  \/ \E k \in Keys : MouseEnter(k, FALSE)
  \/ \E k \in Keys, g \in EdgeGrabs : MouseDown(k, g)
  \/ \E k \in Keys, ptr \in EdgePointers : MouseMove(k, ptr)
  \/ \E k \in Keys : DragEffect(k)
  \/ \E k \in Keys : MouseUp(k, FALSE)
  \/ \E i \in 1..MaxInflight : CommitDone(i, FALSE)

SpecMove == InitOverlay /\ [][NextMove]_vars

\* A drag while the participant leaves the hangout: ChatArea mounts next to
\* the overlay, the user drags the avatar and the session is left.
NextDragLeave ==
  \/ ChatMount
  \/ \E i \in 1..MaxInflight : LoadSessionsDone(i)
  \/ \E i \in 1..MaxInflight : LoadProfilesDone(i)
  \/ LeaveHangout
  \/ LeaveDeleteDone(TRUE)
  \/ \E w \in 1..MaxWindows : WindowClosed(w)
  \/ \E w \in 1..MaxWindows : DidFinishLoad(w)
  \/ OverlayMount
  \/ GetUserDone
  \/ \E i \in 1..MaxInflight : ReloadSessionsDone(i)
  \/ \E i \in 1..MaxInflight : ReloadProfilesDone(i)
  \/ \E k \in Keys : MouseEnter(k, FALSE)
  \/ \E k \in Keys, g \in Grabs : MouseDown(k, g)
  \/ \E k \in Keys, ptr \in Pointers : MouseMove(k, ptr)
  \/ \E k \in Keys : DragEffect(k)
  \/ \E k \in Keys : MouseUp(k, FALSE)
  \/ \E i \in 1..MaxInflight, ok \in BOOLEAN : CommitDone(i, ok)

SpecDragLeave == InitOverlay /\ [][NextDragLeave]_vars

\* Hover events over the avatars against the clock.
NextHover ==
  \/ \E k \in Keys, start \in BOOLEAN : MouseEnter(k, start)
  \/ \E k \in Keys : MouseLeave(k)
  \/ \E i \in 1..MaxTimers : ReleaseFire(i)
  \/ Tick(TickMs)

SpecHover == InitOverlay /\ [][NextHover]_vars

\* The action menu of the local avatar against the clock.
NextGesture ==
  \/ GetUserDone
  \/ \E k \in Keys : MouseEnter(k, FALSE)
  \/ \E k \in Keys : MouseLeave(k)
  \/ \E i \in 1..MaxTimers : ReleaseFire(i)
  \/ \E k \in Keys, g \in Grabs : MouseDown(k, g)
  \/ \E k \in Keys, click \in BOOLEAN : MouseUp(k, click)
  \/ \E k \in Keys, action \in Actions : TriggerAction(k, action)
  \/ \E i \in 1..MaxInflight : SendDone(i)
  \/ \E i \in 1..MaxTimers : ClearFire(i)
  \/ \E d \in {DebounceMs, GestureMs} : Tick(d)

SpecGesture == InitOverlay /\ [][NextGesture]_vars

\* The rosters that reach the overlay: the pushes of the primary window's
\* reloads and the overlay's own reloads, between the avatar-move events of
\* the other clients and the drags of the local avatar.
NextSnapshot ==
  \/ ChatMount
  \/ \E i \in 1..MaxInflight : LoadSessionsDone(i)
  \/ \E i \in 1..MaxInflight : LoadProfilesDone(i)
  \/ \E w \in 1..MaxWindows : WindowClosed(w)
  \/ \E w \in 1..MaxWindows : DidFinishLoad(w)
  \/ OverlayMount
  \/ GetUserDone
  \/ \E i \in 1..MaxInflight : ReloadSessionsDone(i)
  \/ \E i \in 1..MaxInflight : ReloadProfilesDone(i)
  \/ \E u \in RemoteUsers, pos \in Positions : AvatarMove(u, pos)
  \/ \E k \in Keys : MouseEnter(k, FALSE)
  \/ \E k \in Keys, g \in Grabs : MouseDown(k, g)
  \/ \E k \in Keys, ptr \in Pointers : MouseMove(k, ptr)
  \/ \E k \in Keys : DragEffect(k)
  \/ \E k \in Keys : MouseUp(k, FALSE)
  \/ \E i \in 1..MaxInflight : CommitDone(i, TRUE)

SpecSnapshot == InitOverlay /\ [][NextSnapshot]_vars

\* Everything the overlay does to an avatar within one debounce interval (no
\* timer runs) while the store refuses every update: the pointer drags it and
\* opens its menu, gestures are triggered and the events of the channel arrive.
NextAvatars ==
  \/ GetUserDone
  \/ \E u \in Users, pos \in Positions : AvatarMove(u, pos)
  \/ \E u \in Users, action \in Actions : AvatarAction(u, action)
  \/ \E k \in Keys : MouseEnter(k, FALSE)
  \/ \E k \in Keys, g \in Grabs : MouseDown(k, g)
  \/ \E k \in Keys, ptr \in Pointers : MouseMove(k, ptr)
  \/ \E k \in Keys : DragEffect(k)
  \/ \E k \in Keys, click \in BOOLEAN : MouseUp(k, click)
  \/ \E i \in 1..MaxInflight : CommitDone(i, FALSE)
  \/ \E k \in Keys, action \in Actions : TriggerAction(k, action)
  \/ \E i \in 1..MaxInflight : SendDone(i)
  \/ \E k \in Keys : MouseLeave(k)

SpecAvatars == InitOverlay /\ [][NextAvatars]_vars

\* ================================================================== reloads
\* The client of a participant who is in the hangout opens the conversation:
\* ChatArea mounts next to the running overlay, and both windows reload the
\* roster on every change notification, with reads that may fail.
NextReads ==
  \/ ChatMount
  \/ \E i \in 1..MaxInflight : LoadSessionsDone(i)
  \/ \E i \in 1..MaxInflight : LoadSessionsFail(i)
  \/ \E i \in 1..MaxInflight : LoadProfilesDone(i)
  \/ \E u \in RemoteUsers : RemoteJoin(u)
  \/ \E u \in RemoteUsers : RemoteLeave(u)
  \/ \E w \in 1..MaxWindows : WindowClosed(w)
  \/ \E w \in 1..MaxWindows : DidFinishLoad(w)
  \/ OverlayMount
  \/ \E i \in 1..MaxInflight : ReloadSessionsDone(i)
  \/ \E i \in 1..MaxInflight : ReloadSessionsFail(i)
  \/ \E i \in 1..MaxInflight : ReloadProfilesDone(i)

SpecReads == InitOverlay /\ [][NextReads]_vars

\* ================================================================ surfaces
\* The overlay windows of a client from their creation on: the reloads of the
\* primary window request them, the overlay mounts in them and the pointer
\* hovers over the avatars.
NextSurface ==
  \/ \E i \in 1..MaxInflight : LoadSessionsDone(i)
  \/ \E i \in 1..MaxInflight : LoadProfilesDone(i)
  \/ \E u \in RemoteUsers : RemoteJoin(u)
  \/ \E u \in RemoteUsers : RemoteLeave(u)
  \/ \E w \in 1..MaxWindows : WindowClosed(w)
  \/ \E w \in 1..MaxWindows : DidFinishLoad(w)
  \/ OverlayMount
  \/ \E k \in Keys : MouseEnter(k, FALSE)
  \/ \E k \in Keys : MouseLeave(k)
  \/ \E i \in 1..MaxTimers : ReleaseFire(i)
  \/ Tick(DebounceMs)

SpecSurface == Init /\ [][NextSurface]_vars

\* ================================================================== roster
\* The primary window, the main process and the other clients.  The renderer
\* of the overlay acts on these only through set-ignore-mouse-events.
NextRoster ==
  \/ \E i \in 1..MaxInflight : LoadSessionsDone(i)
  \/ \E i \in 1..MaxInflight : LoadSessionsFail(i)
  \/ \E i \in 1..MaxInflight : LoadProfilesDone(i)
  \/ JoinHangout
  \/ JoinInsertDone
  \/ JoinInsertError
  \/ LeaveHangout
  \/ \E ok \in BOOLEAN : LeaveDeleteDone(ok)
  \/ \E u \in RemoteUsers : RemoteJoin(u)
  \/ \E u \in RemoteUsers : RemoteLeave(u)
  \/ \E w \in 1..MaxWindows : WindowClosed(w)
  \/ \E w \in 1..MaxWindows : DidFinishLoad(w)

SpecRoster == Init /\ [][NextRoster]_vars

\* The same with a store whose reads and deletes never fail.
NextReliable ==
  \/ \E i \in 1..MaxInflight : LoadSessionsDone(i)
  \/ \E i \in 1..MaxInflight : LoadProfilesDone(i)
  \/ JoinHangout
  \/ JoinInsertDone
  \/ JoinInsertError
  \/ LeaveHangout
  \/ LeaveDeleteDone(TRUE)
  \/ \E u \in RemoteUsers : RemoteJoin(u)
  \/ \E u \in RemoteUsers : RemoteLeave(u)
  \/ \E w \in 1..MaxWindows : WindowClosed(w)
  \/ \E w \in 1..MaxWindows : DidFinishLoad(w)

SpecReliable == Init /\ [][NextReliable]_vars

\* ================================================================= session
\* The whole life of the local participant's session with a reliable store:
\* join, leave and the other clients, the overlay windows, and the overlay
\* that mounts in them and reloads its roster.
NextSession ==
  \/ \E i \in 1..MaxInflight : LoadSessionsDone(i)
  \/ \E i \in 1..MaxInflight : LoadProfilesDone(i)
  \/ JoinHangout
  \/ JoinInsertDone
  \/ JoinInsertError
  \/ LeaveHangout
  \/ LeaveDeleteDone(TRUE)
  \/ \E u \in RemoteUsers : RemoteJoin(u)
  \/ \E u \in RemoteUsers : RemoteLeave(u)
  \/ \E w \in 1..MaxWindows : WindowClosed(w)
  \/ \E w \in 1..MaxWindows : DidFinishLoad(w)
  \/ OverlayMount
  \/ \E i \in 1..MaxInflight : ReloadSessionsDone(i)
  \/ \E i \in 1..MaxInflight : ReloadProfilesDone(i)

SpecSession == Init /\ [][NextSession]_vars

\* The writes of the local client: it joins, drags its avatar and leaves
\* while the row of another participant is in the table; no other client
\* writes.
NextWrites ==
  \/ \E i \in 1..MaxInflight : LoadSessionsDone(i)
  \/ \E i \in 1..MaxInflight : LoadProfilesDone(i)
  \/ JoinHangout
  \/ JoinInsertDone
  \/ LeaveHangout
  \/ LeaveDeleteDone(TRUE)
  \/ \E w \in 1..MaxWindows : WindowClosed(w)
  \/ \E w \in 1..MaxWindows : DidFinishLoad(w)
  \/ OverlayMount
  \/ GetUserDone
  \/ \E i \in 1..MaxInflight : ReloadSessionsDone(i)
  \/ \E i \in 1..MaxInflight : ReloadProfilesDone(i)
  \/ \E k \in Keys : MouseEnter(k, FALSE)
  \/ \E k \in Keys, g \in Grabs : MouseDown(k, g)
  \/ \E k \in Keys, ptr \in DragTargets : MouseMove(k, ptr)
  \/ \E k \in Keys : DragEffect(k)
  \/ \E k \in Keys : MouseUp(k, FALSE)
  \/ \E i \in 1..MaxInflight : CommitDone(i, TRUE)

InitWrites == Init /\ (\E h \in sessions : h.user_id # LocalUser)

SpecWrites == InitWrites /\ [][NextWrites]_vars

\* The same without other clients: the local participant joins, leaves and
\* joins again.
NextJoin ==
  \/ \E i \in 1..MaxInflight : LoadSessionsDone(i)
  \/ \E i \in 1..MaxInflight : LoadProfilesDone(i)
  \/ JoinHangout
  \/ JoinInsertDone
  \/ JoinInsertError
  \/ LeaveHangout
  \/ LeaveDeleteDone(TRUE)
  \/ \E w \in 1..MaxWindows : WindowClosed(w)
  \/ \E w \in 1..MaxWindows : DidFinishLoad(w)
  \/ OverlayMount
  \/ \E i \in 1..MaxInflight : ReloadSessionsDone(i)
  \/ \E i \in 1..MaxInflight : ReloadProfilesDone(i)

SpecJoin == Init /\ [][NextJoin]_vars

\* ================================================================== switch
\* The user goes from the conversation to another one while the other
\* clients join and leave and reloads are in flight.
NextSwitch ==
  \/ \E i \in 1..MaxInflight : LoadSessionsDone(i)
  \/ \E i \in 1..MaxInflight : LoadProfilesDone(i)
  \/ SwitchConversation
  \/ \E u \in RemoteUsers : RemoteJoin(u)
  \/ \E u \in RemoteUsers : RemoteLeave(u)
  \/ \E w \in 1..MaxWindows : WindowClosed(w)
  \/ \E w \in 1..MaxWindows : DidFinishLoad(w)
  \/ OverlayMount
  \/ \E i \in 1..MaxInflight : ReloadSessionsDone(i)
  \/ \E i \in 1..MaxInflight : ReloadProfilesDone(i)

SpecSwitch == Init /\ [][NextSwitch]_vars

\* ------------------------------------------------------------------ C1
\* C1: once joins and leaves have stopped and no reload is in flight, the
\* roster of each client holds exactly the participants that have a row.
Quiescent == primReloads = << >> /\ ovReloads = << >> /\ joinPc # "insert" /\ leaveReqs = 0
C1_RosterConverges ==
  Quiescent =>
    /\ UsersOf(hangoutParticipants) = UsersOf(sessions)
    /\ OvSubscribed => UsersOf(participants) = UsersOf(sessions)

\* ------------------------------------------------------------------ C2
\* C2: the result of a reload is never applied after the result of a reload
\* that started later.
C2_NoStaleApply ==
  [][\A i \in 1..MaxInflight :
       (i <= Len(primReloads) /\ LoadProfilesDone(i)) => ~primReloads[i].superseded]_vars

RowsOf(u) == {h \in sessions : h.user_id = u}
C5_NoRecreate ==
  [][\A i \in 1..MaxInflight :
       (/\ i <= Len(primReloads)
        /\ LoadProfilesDone(i)
        /\ HasUser(primReloads[i].data, LocalUser)
        /\ Exists(hangoutWindow))
       => /\ hangoutWindow' = hangoutWindow
          /\ windows' = windows
          /\ ovMounted => participants' = primReloads[i].data]_vars

\* ------------------------------------------------------------------ C6
\* C6: an avatar never shows a gesture for more than 2.1 s after
\* triggerAction set it.
C6_GestureCleared ==
  \A k \in DOMAIN avatars :
    avatars[k].currentAction # NoAction => avatars[k].shownMs <= 2100

\* ------------------------------------------------------------------ C7
\* C7: within 100 ms of a hover-enter, the hover events that follow it change
\* the capture mode of the overlay's window at most once.
C7_DebounceOneChange == burst.open => burst.changes <= 1

\* ------------------------------------------------------------------ C8
\* C8: the update sent at pointer-up carries the position the avatar had at
\* that moment, the last one handleMouseMove computed and broadcast.
C8_CommitsFinalPosition ==
  [][\A k \in Keys :
       (k \in DOMAIN avatars /\ MouseUp(k, FALSE))
       => /\ commits'[Len(commits')].x = avatars[k].x
          /\ commits'[Len(commits')].y = avatars[k].y]_vars

\* ------------------------------------------------------------------ C9
\* C9: an avatar-move event for another participant of the roster puts that
\* participant's avatar at the event's coordinates and writes nothing to the
\* table.
C9_RemoteMoveShown ==
  [][\A u \in RemoteUsers, pos \in Positions :
       (AvatarMove(u, pos) /\ HasUser(participants, u))
       => /\ \E k \in DOMAIN avatars' : avatars'[k].user_id = u
          /\ \A k \in DOMAIN avatars' :
               avatars'[k].user_id = u => avatars'[k].x = pos.x /\ avatars'[k].y = pos.y
          /\ sessions' = sessions
          /\ commits' = commits]_vars
\* the avatar of another participant stands where no row of the table puts it
C9_Witness ==
  \E k \in DOMAIN avatars :
    /\ avatars[k].user_id \in RemoteUsers
    /\ \E p \in participants :
         p.id = k /\ avatars[k].x = p.avatar_x /\ avatars[k].y = p.avatar_y
    /\ \E h \in sessions :
         h.id = k /\ <<h.avatar_x, h.avatar_y>> # <<avatars[k].x, avatars[k].y>>

\* ------------------------------------------------------------------ C10
\* C10: a reload of the overlay that completes while a participant has no row
\* (the row was deleted) yields a roster without that participant, and the
\* overlay has no avatar for it.
C10_NextCompletedReload ==
  [][\A i \in 1..MaxInflight :
       (i <= Len(ovReloads) /\ ReloadProfilesDone(i))
       => \A u \in Users \ UsersOf(sessions) :
            /\ ~HasUser(participants', u)
            /\ \A k \in DOMAIN avatars' : avatars'[k].user_id # u]_vars

\* ------------------------------------------------------------------ C11
\* C11: an avatar-move event for a user id that has no entry in the overlay's
\* roster changes neither the roster nor any avatar nor the overlay's data.
C11_StrayMoveIgnored ==
  [][\A u \in Users, pos \in Positions :
       (AvatarMove(u, pos) /\ ~HasUser(participants, u))
       => UNCHANGED <<ovMounted, hangoutData, participants, avatars>>]_vars
\* such an event has been delivered to an overlay that shows avatars
C11_Witness ==
  /\ hist.stray # NoUser
  /\ ~HasUser(participants, hist.stray)
  /\ ovMounted /\ DOMAIN avatars # {}
\* ------------------------------------------------------------------ C12
\* C12: a joinHangout call whose insert finds the row of the pair ends as a
\* successful join does: isInHangout is set and the roster is reloaded.
C12_JoinRaceRefreshes ==
  [][(joinPc = "insert" /\ HasUser(sessions, LocalUser) /\ joinPc' # "insert")
       => /\ isInHangout'
          /\ joinPc' = "reload"
          /\ Len(primReloads') > Len(primReloads)]_vars
\* ------------------------------------------------------------------ C13
\* C13: once a drag has ended and its update has failed, with no later commit
\* and no roster change, the avatar is shown at the last position the drag
\* computed and broadcast.
C13_NoRollback ==
  (Dragged = {} /\ commits = << >>) =>
    \A k \in DOMAIN avatars :
      avatars[k].user_id = published.userId
      => avatars[k].x = published.x /\ avatars[k].y = published.y
\* ------------------------------------------------------------------ C14
\* C14: a reload whose hangout_sessions read fails changes nothing that is
\* shown: the primary window keeps its roster and its flag and sends nothing
\* to the main process, the overlay keeps its roster and its avatars.
C14_FailedReadKeepsRoster ==
  [][\A i \in 1..MaxInflight :
       /\ (i <= Len(primReloads) /\ LoadSessionsFail(i))
          => UNCHANGED <<hangoutParticipants, isInHangout, mainState, rendererVars>>
       /\ (i <= Len(ovReloads) /\ ReloadSessionsFail(i))
          => UNCHANGED <<hangoutData, participants, avatars>>]_vars
\* both windows show a roster that has survived a failed read
C14_Witness ==
  /\ hist.primKept /\ hangoutParticipants # {}
  /\ hist.ovKept /\ ovMounted /\ participants # {}
\* ------------------------------------------------------------------ C15
\* C15: while the local user has no row and no joinHangout call is waiting
\* for its insert (the user has left, or never joined), no overlay window is
\* open.
C15_ClosedAfterLeave ==
  (~HasUser(sessions, LocalUser) /\ joinPc # "insert")
  => \A w \in 1..Len(windows) : windows[w].state # "open"
\* ------------------------------------------------------------------ C16
\* C16: a step that sets the capture mode of the overlay's window back to
\* ignore = true ends in a state in which no avatar is hovered and none is
\* being dragged.
C16_ReleaseOnlyIdle ==
  [][(/\ RendererAlive
      /\ Len(windows') = Len(windows)
      /\ ~windows[Front].ignore
      /\ windows'[Front].ignore)
     => (Hovered' = {} /\ Dragged' = {})]_vars
\* ------------------------------------------------------------------ C17
\* C17: a pointer-up that ends a drag while the pointer is over the avatar
\* leaves the capture mode of the overlay's window at ignore = false.
C17_CaptureKeptWhileHovering ==
  [][\A k \in Keys :
       (k \in DOMAIN avatars /\ MouseUp(k, FALSE) /\ avatars[k].isHovering)
       => ~windows'[Front].ignore]_vars

\* ------------------------------------------------------------------ C18
\* C18: while an avatar is being dragged, the capture mode of the overlay's
\* window is ignore = false.
C18_DragHoldsCapture == Dragged # {} => (RendererAlive /\ ~windows[Front].ignore)
\* ------------------------------------------------------------------ C19
\* C19: an overlay window is created with ignore = true, and its ignore flag
\* becomes false only by a set-ignore-mouse-events(false) request handled
\* while it is the overlay window of the main process.
C19_SurfaceStartsClickThrough ==
  [][\A w \in 1..Len(windows') :
       /\ w > Len(windows) => windows'[w].ignore
       /\ (w <= Len(windows) /\ windows[w].ignore /\ ~windows'[w].ignore)
          => (w = hangoutWindow /\ \E k \in Keys : MouseEnter(k, FALSE))]_vars
\* a window created in this run has received its first capture request
C19_Witness ==
  \E w \in 1..Len(windows) :
    windows[w].state = "open" /\ windows[w].loaded /\ ~windows[w].ignore

\* ------------------------------------------------------------------ C20
\* the local user has a row, and the overlay is mounted in an open window and
\* has received its data
ActiveSession ==
  /\ HasUser(sessions, LocalUser)
  /\ RendererAlive /\ windows[Front].state = "open"
  /\ ovMounted /\ hangoutData.set
\* C20: while the local user has a row and the overlay is mounted in an open
\* window and has received its data, the overlay's roster has an entry for
\* the local user and no two entries for one user.
C20_RosterHasLocalOnce ==
  ActiveSession =>
    /\ HasUser(participants, LocalUser)
    /\ \A u \in Users : Cardinality({p \in participants : p.user_id = u}) <= 1
C22_ChannelScoped ==
  [][\A u \in Users, pos \in Positions :
       ForeignMove(u, pos) => UNCHANGED <<participants, avatars>>]_vars

\* ------------------------------------------------------------------ C23
\* C23: when the overlay receives an avatar-action event for a user of its
\* roster, the avatar of that user has the action as its current action
\* afterwards.
C23_ReceivedGestureShown ==
  [][\A u \in Users, action \in Actions :
       (AvatarAction(u, action) /\ HasUser(participants, u))
         => \E k \in DOMAIN avatars' :
              avatars'[k].user_id = u /\ avatars'[k].currentAction = action]_vars
\* ------------------------------------------------------------------ C24
\* C24: when a reload of the overlay unmounts an avatar that is being
\* dragged, no position update is issued in that step, and none is issued
\* afterwards until a new drag starts.
C24_DroppedDragNoCommit ==
  [][hist'.dropped => Len(commits') <= Len(commits)]_vars
\* the dragged avatar has been moved and was unmounted by a reload; no update
\* is in flight and the row that is gone was never written
C24_Witness ==
  /\ hist.dropped
  /\ published.userId = LocalUser
  /\ Dragged = {}
  /\ commits = << >>
  /\ ~HasUser(participants, LocalUser)
\* ------------------------------------------------------------------ C25
\* C25: an avatar that is being dragged is the avatar of the current user;
\* while the current user id is unknown no avatar is being dragged.
C25_OnlyOwnAvatarDragged ==
  \A k \in DOMAIN avatars :
    avatars[k].isDragging => (currentUserId # NoUser /\ avatars[k].user_id = currentUserId)
\* the own avatar is being dragged next to the avatar of another participant
C25_Witness ==
  /\ Dragged # {}
  /\ \E k \in DOMAIN avatars : avatars[k].user_id # currentUserId /\ ~avatars[k].isDragging
\* ------------------------------------------------------------------ C26
\* C26: every pointer-move of a drag sets the avatar's position and publishes
\* an avatar-move event with the avatar's user id and the same coordinates,
\* with 0 <= x <= max(0, innerWidth - 150) and 0 <= y <= max(0, innerHeight -
\* 200); the clamp keeps every coordinate in that range for every window size.
C26_MoveClamped ==
  [][/\ \A k \in Keys, ptr \in EdgePointers :
          MouseMove(k, ptr) =>
            /\ published'.userId = avatars[k].user_id
            /\ avatars'[k].x = published'.x /\ avatars'[k].y = published'.y
            /\ 0 <= published'.x /\ published'.x <= Max(0, Screen.innerWidth - AvatarWidth)
            /\ 0 <= published'.y /\ published'.y <= Max(0, Screen.innerHeight - AvatarHeight)
     /\ \A size \in SurfaceSizes, v \in Coordinates :
          /\ 0 <= Clamp(size - AvatarWidth, v)
          /\ Clamp(size - AvatarWidth, v) <= Max(0, size - AvatarWidth)
          /\ 0 <= Clamp(size - AvatarHeight, v)
          /\ Clamp(size - AvatarHeight, v) <= Max(0, size - AvatarHeight)]_vars
\* the dragged avatar was taken over the left and the bottom edge: it is shown
\* and published at x = 0 and at the largest y
C26_Witness ==
  \E k \in Dragged :
    /\ avatars[k].x = 0 /\ avatars[k].y = Screen.innerHeight - AvatarHeight
    /\ published = [userId |-> avatars[k].user_id, x |-> avatars[k].x, y |-> avatars[k].y]
\* ------------------------------------------------------------------ C27
\* C27: a hangout_sessions update is issued only in a step that ends a drag
\* of a mounted avatar, which issues exactly one; no other step (pointer-move,
\* received avatar-move or avatar-action event, gesture, refused update)
\* issues one.
C27_WritesOnlyAtPointerUp ==
  [][/\ Len(commits') > Len(commits) =>
          \E k \in Dragged : k \in DOMAIN avatars' /\ ~avatars'[k].isDragging
     /\ (\E k \in Dragged : k \in DOMAIN avatars' /\ ~avatars'[k].isDragging) =>
          \E k \in Dragged :
            commits' = Append(commits, [user_id |-> avatars[k].user_id,
                                        x |-> avatars[k].upX, y |-> avatars[k].upY])]_vars
\* a drag with pointer-moves has ended and its one update is in flight, after
\* an avatar-action event was received
C27_Witness ==
  /\ Len(commits) = 1
  /\ published.userId = LocalUser
  /\ Dragged = {}
  /\ hist.heard.userId # NoUser

\* ------------------------------------------------------------------ C29
\* C29: an avatar-move event for one user leaves the position, the drag flag,
\* the hover flag and the current action of the avatars of all other users
\* unchanged, and triggering an action changes no avatar's position.
C29_AvatarStatePerParticipant ==
  [][/\ \A u \in Users, pos \in Positions :
          AvatarMove(u, pos) =>
            \A k \in DOMAIN avatars :
              avatars[k].user_id # u =>
                /\ k \in DOMAIN avatars'
                /\ avatars'[k].x = avatars[k].x /\ avatars'[k].y = avatars[k].y
                /\ avatars'[k].isDragging = avatars[k].isDragging
                /\ avatars'[k].isHovering = avatars[k].isHovering
                /\ avatars'[k].currentAction = avatars[k].currentAction
     /\ \A k \in Keys, action \in Actions :
          TriggerAction(k, action) =>
            \A j \in DOMAIN avatars :
              /\ j \in DOMAIN avatars'
              /\ avatars'[j].x = avatars[j].x /\ avatars'[j].y = avatars[j].y]_vars
\* the avatar of another user was moved by an event while the own avatar
\* shows an action at the position of its row
C29_Witness ==
  \E a, b \in DOMAIN avatars :
    /\ avatars[a].user_id = LocalUser /\ avatars[b].user_id # LocalUser
    /\ avatars[a].currentAction # NoAction
    /\ \E p \in sessions : p.id = a /\ avatars[a].x = p.avatar_x /\ avatars[a].y = p.avatar_y
    /\ \E p \in sessions : p.id = b /\ <<avatars[b].x, avatars[b].y>> # <<p.avatar_x, p.avatar_y>>
\* ------------------------------------------------------------------ C28
\* no call, window event or overlay mount is outstanding
Settled ==
  /\ primReloads = << >> /\ ovReloads = << >> /\ joinPc \in {"idle", "conflict"} /\ leaveReqs = 0
  /\ \A w \in 1..Len(windows) :
       windows[w].state = "destroyed" \/ (windows[w].state = "open" /\ windows[w].loaded)
  /\ RendererAlive => ovMounted
\* C28: after a joinHangout call has inserted its row and its reload has
\* returned, once everything outstanding has happened and while the row is
\* there, the main process has an open overlay window whose overlay holds a
\* roster with the local user.
C28_JoinShowsOverlay ==
  (hist.joined /\ Settled /\ HasUser(sessions, LocalUser)) =>
    /\ Exists(hangoutWindow) /\ windows[hangoutWindow].state = "open"
    /\ hangoutWindow = Front
    /\ hangoutData.set /\ HasUser(participants, LocalUser)
\* ------------------------------------------------------------------ C30
\* C30: every overlay window that is open (not closed by the main process,
\* not destroyed) is the window hangoutWindow refers to.
C30_LiveWindowReferenced ==
  \A w \in 1..Len(windows) : windows[w].state = "open" => hangoutWindow = w
\* ------------------------------------------------------------------ C31
\* a callback of handleMouseLeave's setTimeout is still to run
ReleasePending == \E i \in 1..Len(timers) : timers[i].kind = "release"
\* C31: when no avatar is hovered, none is being dragged and no release
\* callback is still to run, the overlay's window ignores mouse events.
C31_CaptureReleased ==
  (RendererAlive /\ ovMounted /\ Hovered = {} /\ Dragged = {} /\ ~ReleasePending)
    => windows[Front].ignore
\* ------------------------------------------------------------------ C32
\* C32: when the overlay window of the main process is open and has finished
\* loading and its overlay is mounted, the data the overlay got over the
\* bridge is the payload of the last open-hangout-window request.
C32_OverlayHoldsLatest ==
  (/\ Exists(hangoutWindow) /\ hangoutWindow = Front
   /\ windows[Front].state = "open" /\ windows[Front].loaded
   /\ ovMounted /\ hist.opened.set)
    => hangoutData = hist.opened
\* ------------------------------------------------------------------ C33
\* C33: after the switch to the other conversation, whenever no
\* loadHangoutParticipants call is in flight, hangoutParticipants and
\* isInHangout are those of the other conversation, and no step after the
\* switch sends an open-hangout-window request with another roster.
C33_SwitchShowsNewConversation ==
  [][/\ (conversation' = OtherConversation /\ primReloads' = << >>)
          => /\ hangoutParticipants' = OtherSessions
             /\ isInHangout' = HasUser(OtherSessions, LocalUser)
     /\ (conversation = OtherConversation /\ hist'.opened # hist.opened)
          => hist'.opened = Data(OtherSessions)]_vars
\* ------------------------------------------------------------------ C34
\* C34: when a loadHangoutParticipants call completes with rows that have no
\* row of the local user, the main process has no overlay window afterwards.
C34_NoRowClosesOverlay ==
  [][\A i \in 1..Len(primReloads) :
       (LoadProfilesDone(i) /\ ~HasUser(primReloads[i].data, LocalUser))
         => ~Exists(hangoutWindow')]_vars

\* ----------------------------------------------------------------- C35
\* C35: a gesture of an avatar is cleared no sooner than 2 s after the
\* triggerAction that set it, also when an earlier gesture of the avatar was
\* still displayed: the timer of the earlier gesture does not clear it.
C35_GestureShownInFull ==
  [][\A k \in DOMAIN avatars :
       (/\ k \in DOMAIN avatars'
        /\ avatars[k].currentAction # NoAction
        /\ avatars'[k].currentAction = NoAction)
         => avatars[k].shownMs >= GestureMs]_vars


\* ----------------------------------------------------------------- C36
\* C36: the position update of a drag changes an existing row and never
\* creates one: the step that applies a commit leaves the participants that
\* have a row, and the number of rows, as they were; a commit applied after
\* the local participant's row was deleted leaves the table without it.
C36_CommitNeverCreates ==
  [][Len(commits') < Len(commits)
       => /\ UsersOf(sessions') = UsersOf(sessions)
          /\ Cardinality(sessions') = Cardinality(sessions)
          /\ hist'.late => ~HasUser(sessions', LocalUser)]_vars

C36_Witness ==
  /\ hist.late
  /\ ~HasUser(sessions, LocalUser)
  /\ commits = << >>


\* ----------------------------------------------------------------- C37
\* C37: when a roster snapshot is applied in the overlay (the rows a reload of
\* the overlay has read, or the roster a hangout-update message carries),
\* every avatar that is not being dragged is displayed at the position its
\* row has in the snapshot.
ShowsSnapshot(av, rows) ==
  \A p \in rows :
    /\ p.id \in DOMAIN av
    /\ ~av[p.id].isDragging => (av[p.id].x = p.avatar_x /\ av[p.id].y = p.avatar_y)

C37_SnapshotReplacesPositions ==
  [][/\ \A i \in 1..Len(ovReloads) :
          ReloadProfilesDone(i) => ShowsSnapshot(avatars', ovReloads[i].data)
     /\ \A w \in 1..Len(windows) :
          (DidFinishLoad(w) /\ Exists(hangoutWindow) /\ ovMounted)
            => ShowsSnapshot(avatars', windows[w].initData)
     /\ \A i \in 1..Len(primReloads) :
          (/\ LoadProfilesDone(i) /\ HasUser(primReloads[i].data, LocalUser)
           /\ mainRev = "current" /\ Exists(hangoutWindow) /\ ovMounted)
            => ShowsSnapshot(avatars', primReloads[i].data)]_vars

\* a snapshot has replaced the position an avatar-move event gave to the
\* avatar of another participant
C37_Witness ==
  /\ ovMounted /\ hangoutData.set
  /\ hist.resynced
  /\ \E p \in participants :
       /\ p.user_id \in RemoteUsers
       /\ p \in sessions
       /\ p.id \in DOMAIN avatars
       /\ avatars[p.id].x = p.avatar_x /\ avatars[p.id].y = p.avatar_y


\* ----------------------------------------------------------------- C38
\* C38: every open-hangout-window request of the primary window carries a
\* roster that has a row of the local participant, and a reload whose rows
\* have no row of the local participant sends no request: it leaves the main
\* process and the overlay as they were.
C38_OpensOnlyAsMember ==
  [][/\ hist'.opened # hist.opened
          => HasUser(hist'.opened.participants, LocalUser)
     /\ \A i \in 1..Len(primReloads) :
          (/\ primReloads[i].stage = "profiles"
           /\ ~HasUser(primReloads[i].data, LocalUser)
           /\ hangoutParticipants' = primReloads[i].data
           /\ Len(primReloads') < Len(primReloads))
            => /\ hist'.opened = hist.opened
               /\ mainState' = mainState
               /\ rendererVars' = rendererVars]_vars

\* a reload whose rows have no row of the local participant has completed and
\* no window has ever been requested
C38_Witness ==
  /\ chatMounted /\ primReloads = << >>
  /\ hangoutParticipants # {}
  /\ ~HasUser(hangoutParticipants, LocalUser)
  /\ ~hist.opened.set
  /\ windows = << >>


\* ----------------------------------------------------------------- C39
\* C39: the local client writes only its own row: no join, drag commit or
\* leave of the client adds, changes or removes a row of another participant,
\* and every position update it issues carries its own user id.
OtherRows(s) == {h \in s : h.user_id # LocalUser}

C39_WritesOwnRowOnly ==
  [][/\ OtherRows(sessions') = OtherRows(sessions)
     /\ \A i \in 1..Len(commits') : commits'[i].user_id = LocalUser]_vars

\* next to the row of another participant the client has joined, dragged its
\* avatar and left; the update of the drag ran after the delete
C39_Witness ==
  /\ hist.joined /\ hist.late
  /\ OtherRows(sessions) # {}
  /\ ~HasUser(sessions, LocalUser)

====
